---- MODULE Spec2Model ----
(***************************************************************************)
(* Model of modules/pipeline_lua/module/src/pipeline_lua.c: the Lua        *)
(* pipeline of ivs.  It covers the chunked code upload (handle_lua_upload, *)
(* commit_lua_upload, cleanup_lua_upload), the control-channel listener    *)
(* (message_listener), the per-packet invoker (pipeline_lua_process) and   *)
(* the lifecycle hooks (pipeline_lua_init, pipeline_lua_finish).           *)
(*                                                                         *)
(* Lua source text is modelled as a sequence of bytes over a small         *)
(* alphabet; every byte stands for one lexical fragment:                   *)
(*    "f"  function process()      (opens a function definition)           *)
(*    "e"  end                     (closes it)                             *)
(*    "s"  stat.inc('x')           (writes through the context's sinks)    *)
(*    "w"  function helper() end   (assigns the global name helper)        *)
(*    "h"  helper()                (reads and calls the global helper)     *)
(*    "x"  error()                 (raises a runtime fault)                *)
(*    "k"  if fields.bad then error() end   (fault that depends on the key)*)
(*    "b"  sandbox = { ... }       (built-in code creating the sandbox)    *)
(* Global names resolve in the environment of the running function, as in  *)
(* Lua 5.1: the globals table "G" or the sandbox table.                    *)
(***************************************************************************)
EXTENDS Integers, Sequences, FiniteSets, TLC

VARIABLES
    phase,          \* "new", "running", "aborted" (AIM_DIE / AIM_ASSERT), "finished"
    lua,            \* static lua_State *lua: NULL or the interpreter state
    process_ref,    \* static int process_ref
    context,        \* static struct context context
    upload_chunks,  \* struct xbuf upload_chunks: list of struct upload_chunk
    registered,     \* whether message_listener is registered with indigo core
    builtin,        \* pipeline_lua_builtin_lua: the built-in sources linked in
    last,           \* what the most recent host call did and returned
    pcCtl,          \* position of the control-channel thread
    pcPkt,          \* position of the packet-processing thread
    ctl,            \* locals of the control-channel thread inside handle/commit
    senders         \* history: the connection that delivered each chunk of the
                    \* upload session (the code keeps no such record); only
                    \* the actions of SpecPeers maintain it

vars == <<phase, lua, process_ref, context, upload_chunks, registered,
          builtin, last, pcCtl, pcPkt, ctl, senders>>

----------------------------------------------------------------------------
(* Bounds of the model *)

\* most chunks the pending buffer holds in the model (the code has no limit)
MaxChunks == 2
\* deepest Lua value stack the model follows (the code never checks it)
MaxStack == 2

(* Program constants *)

\* sizeof(struct upload_chunk): of_str64_t filename + uint32_t size
ChunkHeaderSize == 68
\* filename[63] = 0
FilenameCap == 63
\* OFP_BSN_LUA_UPLOAD_MORE
OFP_BSN_LUA_UPLOAD_MORE == 1
\* Lua status codes (lua.h)
LUA_ERRRUN == 2
LUA_ERRSYNTAX == 3

----------------------------------------------------------------------------
(* Lua values *)

Nil == [type |-> "nil"]
Fn(body, env) == [type |-> "function", body |-> body, env |-> env]
Table(ref) == [type |-> "table", ref |-> ref]
ErrMsg == [type |-> "string"]
LightUserdata == [type |-> "lightuserdata"]
NULL == [type |-> "NULL"]

Stmt(op, body) == [op |-> op, body |-> body]
SimpleOps == {"s", "w", "h", "x", "k", "b"}

Min(S) == CHOOSE x \in S : \A y \in S : x <= y

Push(L, v) == [L EXCEPT !.stack = Append(@, v)]
Pop(L, n) == [L EXCEPT !.stack = SubSeq(@, 1, Len(@) - n)]
Top(L) == L.stack[Len(L.stack)]

----------------------------------------------------------------------------
(* Lua: compiling source text (the parser behind luaL_loadbuffer) *)

SyntaxError == [ok |-> FALSE, stmts |-> <<>>]

RECURSIVE ParseFrom(_, _)
ParseFrom(d, i) ==
    IF i > Len(d) THEN [ok |-> TRUE, stmts |-> <<>>]
    ELSE IF d[i] = "f" THEN
        LET ends == {j \in (i + 1)..Len(d) : d[j] = "e"} IN
        IF ends = {} THEN SyntaxError          \* 'end' expected near <eof>
        ELSE LET j == Min(ends)
                 body == SubSeq(d, i + 1, j - 1)
                 rest == ParseFrom(d, j + 1)
             IN IF \E k \in 1..Len(body) : body[k] \notin SimpleOps
                   THEN SyntaxError
                ELSE IF ~rest.ok THEN SyntaxError
                ELSE [ok |-> TRUE,
                      stmts |-> <<Stmt("def", [k \in 1..Len(body) |-> Stmt(body[k], <<>>)])>>
                                \o rest.stmts]
    ELSE IF d[i] \in SimpleOps THEN
        LET rest == ParseFrom(d, i + 1) IN
        IF ~rest.ok THEN SyntaxError
        ELSE [ok |-> TRUE, stmts |-> <<Stmt(d[i], <<>>)>> \o rest.stmts]
    ELSE SyntaxError                           \* unexpected symbol (a lone "e")

Parse(d) == ParseFrom(d, 1)

(* Lua: running compiled code.  T = [G, sandbox, writes]: the globals      *)
(* table, the sandbox table and the sink writes made so far; env names the *)
(* table global names resolve in; ctx is the C context behind _context.    *)

BadKey == 2

RECURSIVE Run(_, _, _, _)
RECURSIVE Step(_, _, _, _)
Step(st, env, T, ctx) ==
    CASE st.op = "s" ->
            [T |-> [T EXCEPT !.writes = Append(@, [stats |-> ctx.stats, actx |-> ctx.actx])],
             ok |-> TRUE]
      [] st.op = "x" -> [T |-> T, ok |-> FALSE]
      [] st.op = "k" -> [T |-> T, ok |-> ctx.fields # BadKey]
      [] st.op = "w" ->
            [T |-> [T EXCEPT ![env].helper = Fn(<<>>, env)], ok |-> TRUE]
      [] st.op = "h" ->
            LET v == T[env].helper IN
            IF v.type # "function" THEN [T |-> T, ok |-> FALSE]   \* attempt to call a nil value
            ELSE Run(v.body, v.env, T, ctx)
      [] st.op = "b" ->
            [T |-> IF env = "G" THEN [T EXCEPT !.G.sandbox = Table("sandbox")] ELSE T,
             ok |-> TRUE]
      [] st.op = "def" ->
            [T |-> [T EXCEPT ![env].process = Fn(st.body, env)], ok |-> TRUE]

Run(stmts, env, T, ctx) ==
    IF stmts = <<>> THEN [T |-> T, ok |-> TRUE]
    ELSE LET r == Step(Head(stmts), env, T, ctx) IN
         IF r.ok THEN Run(Tail(stmts), env, r.T, ctx) ELSE r

----------------------------------------------------------------------------
(* The Lua C API calls pipeline_lua.c makes.  L = [G, sandbox, registry,   *)
(* stack].                                                                 *)

\* luaL_loadbuffer: pushes the compiled chunk (environment: the globals
\* table) and returns 0, or pushes an error message and returns LUA_ERRSYNTAX
luaL_loadbuffer(L, data) ==
    LET p == Parse(data) IN
    IF p.ok THEN [L |-> Push(L, Fn(p.stmts, "G")), status |-> 0]
    ELSE [L |-> Push(L, ErrMsg), status |-> LUA_ERRSYNTAX]

\* lua_getglobal: pushes the value of the global `name`
lua_getglobal(L, name) == Push(L, L.G[name])

\* lua_setfenv(L, -2): pops the table on top and makes it the environment
\* of the function below it; pops only, when either has another type
lua_setfenv(L) ==
    LET n == Len(L.stack)
        t == L.stack[n]
        f == L.stack[n - 1]
    IN IF t.type = "table" /\ f.type = "function"
          THEN Pop([L EXCEPT !.stack[n - 1] = Fn(f.body, t.ref)], 1)
       ELSE Pop(L, 1)

\* lua_pcall(L, 0, 0, 0): pops the function on top and calls it; returns 0,
\* or pushes the error message and returns LUA_ERRRUN
lua_pcall(L, ctx) ==
    LET f == Top(L)
        L0 == Pop(L, 1)
    IN IF f.type # "function"
          THEN [L |-> Push(L0, ErrMsg), status |-> LUA_ERRRUN, writes |-> <<>>]
       ELSE LET r == Run(f.body, f.env,
                         [G |-> L0.G, sandbox |-> L0.sandbox, writes |-> <<>>], ctx)
                L1 == [L0 EXCEPT !.G = r.T.G, !.sandbox = r.T.sandbox]
            IN IF r.ok THEN [L |-> L1, status |-> 0, writes |-> r.T.writes]
               ELSE [L |-> Push(L1, ErrMsg), status |-> LUA_ERRRUN,
                     writes |-> r.T.writes]

\* lua_rawgeti(L, LUA_REGISTRYINDEX, ref): pushes registry[ref]
lua_rawgeti(L, ref) ==
    Push(L, IF ref \in DOMAIN L.registry THEN L.registry[ref] ELSE Nil)

\* luaL_ref(L, LUA_REGISTRYINDEX): pops the value on top, stores it in the
\* registry and returns its new integer key
luaL_ref(L) ==
    [L |-> Pop([L EXCEPT !.registry = Append(@, Top(L))], 1),
     ref |-> Len(L.registry) + 1]

\* variant: the value on top of the stack is taken for a function unseen
lua_isfunction_always(L) == TRUE

lua_isfunction(L) == Top(L).type = "function"

lua_gettop(L) == Len(L.stack)

----------------------------------------------------------------------------
(* The xbuf holding the pending upload: struct upload_chunk records laid   *)
(* end to end, each sizeof(struct upload_chunk) + size bytes long.         *)

RECURSIVE xbuf_length(_)
xbuf_length(buf) ==
    IF buf = <<>> THEN 0
    ELSE ChunkHeaderSize + Head(buf).size + xbuf_length(Tail(buf))

\* the struct upload_chunk at byte `offset` of the buffer
ChunkAt(buf, offset) ==
    LET i == CHOOSE j \in 1..Len(buf) : xbuf_length(SubSeq(buf, 1, j - 1)) = offset
    IN buf[i]

\* variant: the new chunk is placed at the start of the buffer
xbuf_append_front(buf, filename, data) ==
    <<[filename |-> filename, size |-> Len(data), data |-> data]>> \o buf

\* xbuf_reserve + the three stores of handle_lua_upload
xbuf_append(buf, filename, data) ==
    Append(buf, [filename |-> filename, size |-> Len(data), data |-> data])

\* filename[63] = 0
Terminate(filename) ==
    IF Len(filename) > FilenameCap THEN SubSeq(filename, 1, FilenameCap) ELSE filename

----------------------------------------------------------------------------
(* What a host call did: the trace the properties read. *)

NoLast ==
    [op |-> "none",        \* "init", "process", "upload", "other", "finish"
     result |-> "none",    \* the value the call returned to the host
     cxn_id |-> 0,         \* listener: the connection the message came from
     msg |-> Nil,          \* listener: the message
     terminal |-> FALSE,   \* upload: the MORE bit was clear
     buffered |-> <<>>,    \* upload: the pending buffer after the payload was buffered
     committed |-> FALSE,  \* upload: commit_lua_upload has returned
     offset |-> 0,         \* upload: the offset the commit loop ended at
     loaded |-> <<>>,      \* every luaL_loadbuffer call: name, text, status
     execd |-> <<>>,       \* every lua_pcall: the function called, status
     replies |-> <<>>,     \* every indigo_cxn_send_error_reply
     writes |-> <<>>]      \* every write through context.stats / context.actx

----------------------------------------------------------------------------
(* Inputs *)

\* pipeline_lua_builtin_lua as linked into the binary: either the image
\* that defines the sandbox, a helper and process(), or one without process()
BuiltinImages ==
    { << [name |-> "base", text |-> <<"b", "w">>],
         [name |-> "process", text |-> <<"f", "k", "s", "e">>] >>,
      << [name |-> "base", text |-> <<"b", "w">>] >> }

\* packets: the parsed key and the sinks the host passes with it
Packets ==
    { [key |-> 1, stats |-> "stats1", actx |-> "actx1"],
      [key |-> BadKey, stats |-> "stats2", actx |-> "actx2"] }

Cxns == {1, 2}

\* the upload payloads a controller sends, each under the file name it uses
Scripts ==
    { [filename |-> <<"a">>, data |-> <<>>],
      [filename |-> <<"a">>, data |-> <<"f", "e">>],
      [filename |-> <<"a">>, data |-> <<"f">>],
      [filename |-> <<"a">>, data |-> <<"e">>],
      [filename |-> <<"b">>, data |-> <<"s">>],
      [filename |-> <<"b">>, data |-> <<"h">>],
      [filename |-> <<"c">>, data |-> <<"w">>] }
FlagValues == {0, OFP_BSN_LUA_UPLOAD_MORE}

UploadMsgs ==
    { [object_id |-> "OF_BSN_LUA_UPLOAD", data |-> sc.data, flags |-> fl,
       filename |-> sc.filename] : sc \in Scripts, fl \in FlagValues }
OtherMsgs ==
    { [object_id |-> "OF_ECHO_REQUEST", data |-> <<>>, flags |-> 0,
       filename |-> <<>>] }

\* variant: the MORE bit is never seen, every message ends its session
HasMore_never(flags) == FALSE

\* flags & OFP_BSN_LUA_UPLOAD_MORE
HasMore(flags) == (flags \div OFP_BSN_LUA_UPLOAD_MORE) % 2 = 1

----------------------------------------------------------------------------
(* commit_lua_upload.  S is the commit in progress: the interpreter and    *)
(* what the commit has done so far.                                        *)

CommitStart(L) ==
    [L |-> L, stop |-> FALSE, offset |-> 0, loaded |-> <<>>, execd |-> <<>>,
     replies |-> <<>>, writes |-> <<>>]

\* variant: the error goes out on one fixed connection, whoever asked
ErrorReply_fixed_cxn(cxn_id, msg) ==
    [cxn_id |-> 1, msg |-> msg, type |-> "OF_ERROR_TYPE_BAD_REQUEST",
     code |-> "OF_REQUEST_FAILED_EPERM"]

\* indigo_cxn_send_error_reply(cxn_id, msg, BAD_REQUEST, EPERM)
ErrorReply(cxn_id, msg) ==
    [cxn_id |-> cxn_id, msg |-> msg, type |-> "OF_ERROR_TYPE_BAD_REQUEST",
     code |-> "OF_REQUEST_FAILED_EPERM"]

\* variant: the chunk keeps the environment luaL_loadbuffer gave it
BindSandbox_skipped(L) == L

\* the chunk's environment is set to the sandbox before it is called
BindSandbox(L) == lua_setfenv(lua_getglobal(L, "sandbox"))

\* variant: the execution failure path sends no error reply
CommitIter_no_reply(S, chunk, cxn_id, msg, ctx) ==
    LET ld == luaL_loadbuffer(S.L, SubSeq(chunk.data, 1, chunk.size))
        S1 == [S EXCEPT !.L = ld.L,
                        !.loaded = Append(@, [filename |-> chunk.filename,
                                              text |-> SubSeq(chunk.data, 1, chunk.size),
                                              status |-> ld.status])]
    IN IF ld.status # 0
          THEN [S1 EXCEPT !.replies = Append(@, ErrorReply(cxn_id, msg)),
                          !.stop = TRUE]
       ELSE LET L2 == BindSandbox(ld.L)
                pc == lua_pcall(L2, ctx)
                S2 == [S1 EXCEPT !.L = pc.L,
                                 !.execd = Append(@, [filename |-> chunk.filename,
                                                      fn |-> Top(L2),
                                                      nloaded |-> Len(S1.loaded),
                                                      status |-> pc.status]),
                                 !.writes = @ \o pc.writes]
            IN IF pc.status # 0
                  THEN [S2 EXCEPT !.stop = TRUE]
               ELSE S2

\* variant: the execution failure path lacks its goto
CommitIter_no_goto(S, chunk, cxn_id, msg, ctx) ==
    LET ld == luaL_loadbuffer(S.L, SubSeq(chunk.data, 1, chunk.size))
        S1 == [S EXCEPT !.L = ld.L,
                        !.loaded = Append(@, [filename |-> chunk.filename,
                                              text |-> SubSeq(chunk.data, 1, chunk.size),
                                              status |-> ld.status])]
    IN IF ld.status # 0
          THEN [S1 EXCEPT !.replies = Append(@, ErrorReply(cxn_id, msg)),
                          !.stop = TRUE]
       ELSE LET L2 == BindSandbox(ld.L)
                pc == lua_pcall(L2, ctx)
                S2 == [S1 EXCEPT !.L = pc.L,
                                 !.execd = Append(@, [filename |-> chunk.filename,
                                                      fn |-> Top(L2),
                                                      nloaded |-> Len(S1.loaded),
                                                      status |-> pc.status]),
                                 !.writes = @ \o pc.writes]
            IN IF pc.status # 0
                  THEN [S2 EXCEPT !.replies = Append(@, ErrorReply(cxn_id, msg))]
               ELSE S2

\* one iteration of the while loop, on the chunk at the current offset
CommitIter(S, chunk, cxn_id, msg, ctx) ==
    LET ld == luaL_loadbuffer(S.L, SubSeq(chunk.data, 1, chunk.size))
        S1 == [S EXCEPT !.L = ld.L,
                        !.loaded = Append(@, [filename |-> chunk.filename,
                                              text |-> SubSeq(chunk.data, 1, chunk.size),
                                              status |-> ld.status])]
    IN IF ld.status # 0
          THEN [S1 EXCEPT !.replies = Append(@, ErrorReply(cxn_id, msg)),
                          !.stop = TRUE]
       ELSE LET L2 == BindSandbox(ld.L)
                pc == lua_pcall(L2, ctx)
                S2 == [S1 EXCEPT !.L = pc.L,
                                 !.execd = Append(@, [filename |-> chunk.filename,
                                                      fn |-> Top(L2),
                                                      nloaded |-> Len(S1.loaded),
                                                      status |-> pc.status]),
                                 !.writes = @ \o pc.writes]
            IN IF pc.status # 0
                  THEN [S2 EXCEPT !.replies = Append(@, ErrorReply(cxn_id, msg)),
                                  !.stop = TRUE]
               ELSE S2

\* offset += sizeof(*chunk) + chunk->size
NextOffset(offset, chunk) == offset + ChunkHeaderSize + chunk.size

RECURSIVE CommitLoop(_, _, _, _, _, _)
CommitLoop(S, buf, offset, cxn_id, msg, ctx) ==
    IF S.stop \/ ~(offset < xbuf_length(buf)) THEN [S EXCEPT !.offset = offset]
    ELSE LET chunk == ChunkAt(buf, offset) IN
         CommitLoop(CommitIter(S, chunk, cxn_id, msg, ctx), buf,
                    NextOffset(offset, chunk), cxn_id, msg, ctx)

\* variant: the buffer is left as it is
cleanup_lua_upload_keep(buf) == buf

\* cleanup_lua_upload: xbuf_reset(&upload_chunks)
cleanup_lua_upload(buf) == <<>>

\* variant: the failure paths return instead of jumping to the cleanup label
commit_lua_upload_return_on_error(L, buf, cxn_id, msg, ctx) ==
    LET S == CommitLoop(CommitStart(L), buf, 0, cxn_id, msg, ctx) IN
    [S |-> S, upload_chunks |-> IF S.stop THEN buf ELSE cleanup_lua_upload(buf)]

\* variant: the commit re-resolves the entry point from the sandbox before
\* its cleanup, on the failure paths too
commit_lua_upload_reresolve(L, buf, cxn_id, msg, ctx) ==
    LET S == CommitLoop(CommitStart(L), buf, 0, cxn_id, msg, ctx)
        f == S.L.sandbox.process
    IN [S |-> IF f.type = "function"
                 THEN [S EXCEPT !.L.registry[process_ref] = f]
              ELSE S,
        upload_chunks |-> cleanup_lua_upload(buf)]

\* commit_lua_upload: the loop, then the cleanup label
commit_lua_upload(L, buf, cxn_id, msg, ctx) ==
    [S |-> CommitLoop(CommitStart(L), buf, 0, cxn_id, msg, ctx),
     upload_chunks |-> cleanup_lua_upload(buf)]

\* variant: a chunk is reserved for an empty payload too
BufferChunk_always(buf, msg) ==
    xbuf_append(buf, Terminate(msg.filename), msg.data)

\* variant: the payload is buffered only when the message ends the session
BufferChunk_terminal_only(buf, msg) ==
    IF Len(msg.data) > 0 /\ ~HasMore(msg.flags)
       THEN xbuf_append(buf, Terminate(msg.filename), msg.data)
    ELSE buf

\* the first half of handle_lua_upload: buffer the payload when non-empty
BufferChunk(buf, msg) ==
    IF Len(msg.data) > 0
       THEN xbuf_append(buf, Terminate(msg.filename), msg.data)
    ELSE buf

----------------------------------------------------------------------------
(* pipeline_lua_init *)

\* luaL_newstate + luaL_openlibs: empty stack, no integer keys in the registry
NewState ==
    [G |-> [process |-> Nil, helper |-> Nil, sandbox |-> Nil, _context |-> Nil],
     sandbox |-> [process |-> Nil, helper |-> Nil],
     registry |-> <<>>,
     stack |-> <<>>]

\* the static struct context before any packet: zero-initialised
NoContext == [fields |-> 0, stats |-> "NULL", actx |-> "NULL"]

NoCtl ==
    [cxn_id |-> 0, msg |-> Nil, offset |-> 0, stop |-> FALSE, loaded |-> <<>>,
     execd |-> <<>>, replies |-> <<>>, writes |-> <<>>]

\* lua_pushlightuserdata(lua, &context); lua_setglobal(lua, "_context")
SetContextGlobal(L) == [L EXCEPT !.G._context = LightUserdata]

\* the loop over pipeline_lua_builtin_lua: parse and execute each source in
\* the unrestricted namespace; ok is FALSE where the code calls AIM_DIE
RECURSIVE LoadBuiltins(_, _, _)
LoadBuiltins(L, images, ctx) ==
    IF images = <<>> THEN [L |-> L, ok |-> TRUE]
    ELSE LET ld == luaL_loadbuffer(L, Head(images).text) IN
         IF ld.status # 0 THEN [L |-> ld.L, ok |-> FALSE]
         ELSE LET pc == lua_pcall(ld.L, ctx) IN
              IF pc.status # 0 THEN [L |-> pc.L, ok |-> FALSE]
              ELSE LoadBuiltins(pc.L, Tail(images), ctx)

PipelineLuaInit(alloc_ok) ==
    /\ phase = "new"
    /\ registered' = TRUE
    /\ upload_chunks' = <<>>
    /\ LET b == LoadBuiltins(SetContextGlobal(NewState), builtin, context)
           g == lua_getglobal(b.L, "process")
           r == luaL_ref(g)
       IN IF ~alloc_ok
             THEN /\ lua' = NULL                \* AIM_DIE("failed to allocate Lua state")
                  /\ phase' = "aborted"
                  /\ UNCHANGED process_ref
          ELSE IF ~b.ok
             THEN /\ lua' = b.L                 \* AIM_DIE("Failed to load/execute ...")
                  /\ phase' = "aborted"
                  /\ UNCHANGED process_ref
          ELSE IF ~lua_isfunction(g)
             THEN /\ lua' = g                   \* AIM_ASSERT(lua_isfunction(lua, -1))
                  /\ phase' = "aborted"
                  /\ UNCHANGED process_ref
          ELSE /\ lua' = r.L
               /\ process_ref' = r.ref
               /\ phase' = "running"
    /\ last' = [NoLast EXCEPT !.op = "init"]
    /\ UNCHANGED <<senders, context, builtin, pcCtl, pcPkt, ctl>>

----------------------------------------------------------------------------
(* pipeline_lua_finish *)

PipelineLuaFinish ==
    /\ phase = "running"
    /\ pcCtl = "idle" /\ pcPkt = "idle"
    /\ lua' = NULL                                   \* lua_close(lua); lua = NULL
    /\ registered' = FALSE
    /\ upload_chunks' = cleanup_lua_upload(upload_chunks)
    /\ phase' = "finished"
    /\ last' = [NoLast EXCEPT !.op = "finish",
                              !.buffered = upload_chunks]   \* pending at the call
    /\ UNCHANGED <<senders, process_ref, context, builtin, pcCtl, pcPkt, ctl>>

----------------------------------------------------------------------------
(* pipeline_lua_process *)

\* pipeline_lua_fields_from_key(key, &context.fields)
FieldsFromKey(key) == key

SetContext(pkt) ==
    [fields |-> FieldsFromKey(pkt.key), stats |-> pkt.stats, actx |-> pkt.actx]

\* lua_rawgeti(lua, LUA_REGISTRYINDEX, process_ref)
PushEntryPoint(L, ref) == lua_rawgeti(L, ref)

\* variant: the status of lua_pcall is returned to the host
ProcessTrace_propagate(L1, pc) ==
    [NoLast EXCEPT !.op = "process",
                   !.result = IF pc.status # 0 THEN "INDIGO_ERROR_UNKNOWN"
                              ELSE "INDIGO_ERROR_NONE",
                   !.execd = <<[filename |-> <<>>, fn |-> Top(L1), nloaded |-> 0,
                                 status |-> pc.status]>>,
                   !.writes = pc.writes]

ProcessTrace(L1, pc) ==
    [NoLast EXCEPT !.op = "process",
                   !.result = "INDIGO_ERROR_NONE",
                   !.execd = <<[filename |-> <<>>, fn |-> Top(L1), nloaded |-> 0,
                                 status |-> pc.status]>>,
                   !.writes = pc.writes]

PipelineLuaProcess(pkt) ==
    /\ phase = "running"
    /\ pcCtl = "idle" /\ pcPkt = "idle"
    /\ lua_gettop(lua) < MaxStack
    /\ context' = SetContext(pkt)
    /\ LET L1 == PushEntryPoint(lua, process_ref)
           pc == lua_pcall(L1, context')
       IN /\ lua' = pc.L
          /\ last' = ProcessTrace(L1, pc)
    /\ UNCHANGED <<senders, phase, process_ref, upload_chunks, registered, builtin,
                   pcCtl, pcPkt, ctl>>

----------------------------------------------------------------------------
(* message_listener, with handle_lua_upload and commit_lua_upload inlined *)

\* variant: a failed commit is reported to indigo core as pass-through
UploadTrace_pass_on_failure(cxn_id, msg, buf, S, committed) ==
    [NoLast EXCEPT !.op = "upload",
                   !.result = IF S.replies # <<>>
                                 THEN "INDIGO_CORE_LISTENER_RESULT_PASS"
                              ELSE "INDIGO_CORE_LISTENER_RESULT_DROP",
                   !.cxn_id = cxn_id,
                   !.msg = msg,
                   !.buffered = buf,
                   !.terminal = ~HasMore(msg.flags),
                   !.committed = committed,
                   !.offset = S.offset,
                   !.loaded = S.loaded,
                   !.execd = S.execd,
                   !.replies = S.replies,
                   !.writes = S.writes]

UploadTrace(cxn_id, msg, buf, S, committed) ==
    [NoLast EXCEPT !.op = "upload",
                   !.result = "INDIGO_CORE_LISTENER_RESULT_DROP",
                   !.cxn_id = cxn_id,
                   !.msg = msg,
                   !.buffered = buf,
                   !.terminal = ~HasMore(msg.flags),
                   !.committed = committed,
                   !.offset = S.offset,
                   !.loaded = S.loaded,
                   !.execd = S.execd,
                   !.replies = S.replies,
                   !.writes = S.writes]

OtherTrace(cxn_id, msg) ==
    [NoLast EXCEPT !.op = "other",
                   !.result = "INDIGO_CORE_LISTENER_RESULT_PASS",
                   !.cxn_id = cxn_id,
                   !.msg = msg]

HandleMessage(cxn_id, msg) ==
    /\ phase = "running" /\ registered
    /\ pcCtl = "idle" /\ pcPkt = "idle"
    /\ IF msg.object_id = "OF_BSN_LUA_UPLOAD"
          THEN /\ Len(msg.data) > 0 => Len(upload_chunks) < MaxChunks
               /\ ~HasMore(msg.flags) => lua_gettop(lua) < MaxStack
               /\ LET buf == BufferChunk(upload_chunks, msg) IN
                  IF ~HasMore(msg.flags)
                     THEN LET c == commit_lua_upload(lua, buf, cxn_id, msg, context) IN
                          /\ lua' = c.S.L
                          /\ upload_chunks' = c.upload_chunks
                          /\ last' = UploadTrace(cxn_id, msg, buf, c.S, TRUE)
                  ELSE /\ upload_chunks' = buf
                       /\ last' = UploadTrace(cxn_id, msg, buf, CommitStart(lua), FALSE)
                       /\ UNCHANGED lua
       ELSE /\ last' = OtherTrace(cxn_id, msg)
            /\ UNCHANGED <<lua, upload_chunks>>
    /\ UNCHANGED <<phase, process_ref, context, registered, builtin, pcCtl, pcPkt, ctl>>

MessageListener(cxn_id, msg) ==
    /\ HandleMessage(cxn_id, msg)
    /\ UNCHANGED senders

----------------------------------------------------------------------------
(* The host as the code assumes it: one thread, each call runs to its      *)
(* return before the next begins.                                          *)

Init ==
    /\ phase = "new"
    /\ lua = NULL
    /\ process_ref = 0
    /\ context = NoContext
    /\ upload_chunks = <<>>
    /\ registered = FALSE
    /\ builtin \in BuiltinImages
    /\ last = NoLast
    /\ pcCtl = "idle"
    /\ pcPkt = "idle"
    /\ ctl = NoCtl
    /\ senders = <<>>

Next ==
    \/ \E alloc_ok \in BOOLEAN : PipelineLuaInit(alloc_ok)
    \/ \E pkt \in Packets : PipelineLuaProcess(pkt)
    \/ \E cxn_id \in Cxns, msg \in UploadMsgs \cup OtherMsgs : MessageListener(cxn_id, msg)
    \/ PipelineLuaFinish

Spec == Init /\ [][Next]_vars

----------------------------------------------------------------------------
(* The host with the control channel and the packet path on two threads.   *)
(* pipeline_lua.c takes no lock, so the calls of one thread interleave     *)
(* with the calls of the other at every Lua API call; the model follows    *)
(* the interleavings at the grain of one loop iteration of the commit and  *)
(* of the two halves of pipeline_lua_process.                              *)

\* the control thread is in the loop of commit_lua_upload with a chunk still
\* to load and run on the interpreter
CommitInRuntime ==
    /\ pcCtl = "commit"
    /\ ~ctl.stop
    /\ ctl.offset < xbuf_length(upload_chunks)

\* the packet thread has pushed the entry point and not yet returned from
\* lua_pcall
ProcessInRuntime == pcPkt = "pcall"

\* message_listener up to the call of commit_lua_upload
T_MessageListener(cxn_id, msg) ==
    /\ phase = "running" /\ registered
    /\ pcCtl = "idle"
    /\ IF msg.object_id = "OF_BSN_LUA_UPLOAD"
          THEN /\ Len(msg.data) > 0 => Len(upload_chunks) < MaxChunks
               /\ ~HasMore(msg.flags) => lua_gettop(lua) < MaxStack
               /\ upload_chunks' = BufferChunk(upload_chunks, msg)
               /\ IF ~HasMore(msg.flags)
                     THEN /\ pcCtl' = "commit"
                          /\ ctl' = [NoCtl EXCEPT !.cxn_id = cxn_id, !.msg = msg]
                          /\ UNCHANGED last
                  ELSE /\ last' = UploadTrace(cxn_id, msg, BufferChunk(upload_chunks, msg),
                                                CommitStart(lua), FALSE)
                       /\ UNCHANGED <<pcCtl, ctl>>
       ELSE /\ last' = OtherTrace(cxn_id, msg)
            /\ UNCHANGED <<upload_chunks, pcCtl, ctl>>
    /\ UNCHANGED <<senders, phase, lua, process_ref, context, registered, builtin, pcPkt>>

\* one iteration of the while loop of commit_lua_upload
T_CommitIter ==
    /\ pcCtl = "commit"
    /\ ~ctl.stop
    /\ ctl.offset < xbuf_length(upload_chunks)
    /\ LET chunk == ChunkAt(upload_chunks, ctl.offset)
           S == CommitIter([L |-> lua, stop |-> ctl.stop, offset |-> ctl.offset,
                            loaded |-> ctl.loaded,
                            execd |-> ctl.execd, replies |-> ctl.replies,
                            writes |-> ctl.writes],
                           chunk, ctl.cxn_id, ctl.msg, context)
       IN /\ lua' = S.L
          /\ ctl' = [ctl EXCEPT !.offset = NextOffset(ctl.offset, chunk),
                                !.stop = S.stop, !.loaded = S.loaded,
                                !.execd = S.execd, !.replies = S.replies,
                                !.writes = S.writes]
    /\ UNCHANGED <<senders, phase, process_ref, context, upload_chunks, registered,
                   builtin, last, pcCtl, pcPkt>>

\* the cleanup label of commit_lua_upload and the returns to the host
T_CommitCleanup ==
    /\ pcCtl = "commit"
    /\ ctl.stop \/ ~(ctl.offset < xbuf_length(upload_chunks))
    /\ upload_chunks' = cleanup_lua_upload(upload_chunks)
    /\ last' = UploadTrace(ctl.cxn_id, ctl.msg, upload_chunks, ctl, TRUE)
    /\ pcCtl' = "idle"
    /\ ctl' = NoCtl
    /\ UNCHANGED <<senders, phase, lua, process_ref, context, registered, builtin, pcPkt>>

\* pipeline_lua_process up to lua_rawgeti
T_ProcessEnter(pkt) ==
    /\ phase = "running"
    /\ pcPkt = "idle"
    /\ lua_gettop(lua) < MaxStack
    /\ context' = SetContext(pkt)
    /\ lua' = PushEntryPoint(lua, process_ref)
    /\ pcPkt' = "pcall"
    /\ UNCHANGED <<senders, phase, process_ref, upload_chunks, registered, builtin,
                   last, pcCtl, ctl>>

\* lua_pcall and the return of pipeline_lua_process
T_ProcessCall ==
    /\ pcPkt = "pcall"
    /\ LET pc == lua_pcall(lua, context)
       IN /\ lua' = pc.L
          /\ last' = ProcessTrace(lua, pc)
    /\ pcPkt' = "idle"
    /\ UNCHANGED <<senders, phase, process_ref, context, upload_chunks, registered,
                   builtin, pcCtl, ctl>>

NextThreads ==
    \/ \E alloc_ok \in BOOLEAN : PipelineLuaInit(alloc_ok)
    \/ \E cxn_id \in Cxns, msg \in UploadMsgs \cup OtherMsgs : T_MessageListener(cxn_id, msg)
    \/ T_CommitIter
    \/ T_CommitCleanup
    \/ \E pkt \in Packets : T_ProcessEnter(pkt)
    \/ T_ProcessCall
    \/ PipelineLuaFinish

SpecThreads == Init /\ [][NextThreads]_vars

----------------------------------------------------------------------------
(* The host with several controller connections, keeping for every chunk   *)
(* of the upload session the connection that delivered it.  The buffer is  *)
(* one static xbuf and handle_lua_upload never looks at cxn_id before it   *)
(* appends, so the record lives beside the buffer, in senders: it follows  *)
(* the session in progress and, while the buffer is empty after a commit,  *)
(* the session that was just committed.                                    *)

SendersAfter(cxn_id, msg) ==
    LET open == IF upload_chunks = <<>> THEN <<>> ELSE senders
    IN IF msg.object_id = "OF_BSN_LUA_UPLOAD" /\ Len(msg.data) > 0
          THEN Append(open, cxn_id)
       ELSE IF msg.object_id = "OF_BSN_LUA_UPLOAD" THEN open
       ELSE senders

PeerMessage(cxn_id, msg) ==
    /\ HandleMessage(cxn_id, msg)
    /\ senders' = SendersAfter(cxn_id, msg)

\* the control channel alone: no packet is processed meanwhile
NextPeers ==
    \/ \E alloc_ok \in BOOLEAN : PipelineLuaInit(alloc_ok)
    \/ \E cxn_id \in Cxns, msg \in UploadMsgs \cup OtherMsgs : PeerMessage(cxn_id, msg)
    \/ PipelineLuaFinish

SpecPeers == Init /\ [][NextPeers]_vars

----------------------------------------------------------------------------
(* Properties *)

\* a commit failed: some chunk did not compile or did not execute
CommitFailed(t) ==
    \/ \E i \in 1..Len(t.loaded) : t.loaded[i].status # 0
    \/ \E i \in 1..Len(t.execd) : t.execd[i].status # 0

TerminalReturned == last.op = "upload" /\ last.terminal

\* C1: whenever the handling of a terminal upload message (MORE clear) has
\* returned, the pending upload buffer is empty, whether the commit
\* succeeded, failed at compile or failed at execution.
C1_BufferEmptyAfterTerminal ==
    TerminalReturned => (last.committed /\ upload_chunks = <<>>)

\* a terminal message arrived on top of buffered chunks and its commit failed
C1_Witness ==
    /\ TerminalReturned
    /\ Len(last.buffered) >= 2
    /\ CommitFailed(last)
    /\ upload_chunks = <<>>

\* a returned call of pipeline_lua_process called the function behind
\* process_ref once and reported success
C2_ProcessReturned ==
    last.op = "process" =>
        /\ last.result = "INDIGO_ERROR_NONE"
        /\ Len(last.execd) = 1
        /\ last.execd[1].fn.type = "function"
        /\ last.execd[1].fn = lua.registry[process_ref]

\* the call that follows a faulted call
C2_InvokedAgainAfterFault ==
    \A pkt \in Packets :
        (/\ last.op = "process"
         /\ last.execd[1].status # 0
         /\ PipelineLuaProcess(pkt))
        => /\ last'.result = "INDIGO_ERROR_NONE"
           /\ last'.execd[1].fn = lua.registry[process_ref]
           /\ last'.execd[1].fn.type = "function"

\* C2: pipeline_lua_process returns INDIGO_ERROR_NONE whatever the entry
\* point did, a runtime fault included, and a call that follows a faulted
\* call again invokes the function behind process_ref.
C2_ProcessAlwaysSucceeds ==
    [] C2_ProcessReturned /\ [][C2_InvokedAgainAfterFault]_vars

\* the entry point raised a runtime fault and the call returned
C2_Witness ==
    /\ last.op = "process"
    /\ last.execd[1].status = LUA_ERRRUN
    /\ last.result = "INDIGO_ERROR_NONE"

\* C3: in a commit, once compiling or executing buffered chunk k fails, no
\* chunk with a greater index is compiled or executed.
C3_StopsAtFirstFailure ==
    (last.op = "upload" /\ last.committed) =>
        /\ Len(last.execd) <= Len(last.loaded)
        /\ \A k \in 1..Len(last.loaded) :
              (\/ last.loaded[k].status # 0
               \/ (k <= Len(last.execd) /\ last.execd[k].status # 0))
              => (Len(last.loaded) = k /\ Len(last.execd) <= k)
        /\ \A k \in 1..Len(last.loaded) : last.loaded[k].text = last.buffered[k].data

\* the first of several buffered chunks failed to execute and the commit
\* went no further
C3_Witness ==
    /\ last.op = "upload" /\ last.committed
    /\ Len(last.buffered) >= 2
    /\ Len(last.loaded) = 1
    /\ Len(last.execd) = 1
    /\ last.execd[1].status # 0

\* the payloads of the buffered chunks, end to end
RECURSIVE Concat(_)
Concat(buf) == IF buf = <<>> THEN <<>> ELSE Head(buf).data \o Concat(Tail(buf))

SameFilename(buf) == \A i, j \in 1..Len(buf) : buf[i].filename = buf[j].filename

\* C4: the chunks of a session that share a file name are compiled as one
\* unit, the concatenation of their payloads in arrival order.
C4_ConcatenationCompiledAsOneUnit ==
    (/\ last.op = "upload" /\ last.committed
     /\ last.buffered # <<>>
     /\ SameFilename(last.buffered))
    => (/\ Len(last.loaded) = 1
        /\ last.loaded[1].filename = last.buffered[1].filename
        /\ last.loaded[1].text = Concat(last.buffered))

\* a compiled chunk whose top level defines the function process
DefinesProcess(fn) == \E k \in 1..Len(fn.body) : fn.body[k].op = "def"

CommitSucceeded == last.op = "upload" /\ last.committed /\ ~CommitFailed(last)

\* C5: after a fully successful commit whose code defines process, the
\* function behind process_ref, the one pipeline_lua_process calls, is the
\* uploaded definition.
C5_EntryPointReplaced ==
    (CommitSucceeded /\ \E i \in 1..Len(last.execd) : DefinesProcess(last.execd[i].fn))
    => lua.registry[process_ref] = lua.sandbox.process

\* C6: a commit in which a fragment fails leaves the bindings of the runtime
\* as they were before the commit.
C6_FailedCommitLeavesRuntimeUnchanged ==
    [][(last'.op = "upload" /\ last'.committed /\ CommitFailed(last'))
       => (lua'.sandbox = lua.sandbox /\ lua'.G = lua.G)]_vars

\* C7: a commit that fails sends exactly one error reply, of type BAD_REQUEST
\* and code EPERM, on the connection and for the message that triggered it;
\* a commit in which every chunk succeeds sends none, and neither do
\* non-terminal uploads, other messages and per-packet invocations.
C7_OneReplyPerFailedCommit ==
    /\ (last.op = "upload" /\ last.committed /\ CommitFailed(last)) =>
          last.replies = << [cxn_id |-> last.cxn_id, msg |-> last.msg,
                             type |-> "OF_ERROR_TYPE_BAD_REQUEST",
                             code |-> "OF_REQUEST_FAILED_EPERM"] >>
    /\ (last.op = "upload" /\ last.committed /\ ~CommitFailed(last)) =>
          last.replies = <<>>
    /\ (last.op = "upload" /\ ~last.terminal) =>
          (~last.committed /\ last.replies = <<>>)
    /\ last.op \in {"process", "other", "init", "finish", "none"} =>
          last.replies = <<>>

\* a chunk compiled but failed to execute, after another chunk had run, and
\* the one reply went to the sender of the terminal message
C7_Witness ==
    /\ last.op = "upload" /\ last.committed
    /\ Len(last.execd) = 2
    /\ last.execd[2].status # 0
    /\ Len(last.replies) = 1
    /\ last.replies[1].cxn_id = last.cxn_id

\* the result message_listener returned for the message it was given
C8_ListenerResult ==
    /\ last.op = "upload" => last.result = "INDIGO_CORE_LISTENER_RESULT_DROP"
    /\ last.op = "other" => last.result = "INDIGO_CORE_LISTENER_RESULT_PASS"
    /\ last.op \in {"upload", "other"} =>
          (last.op = "upload") = (last.msg.object_id = "OF_BSN_LUA_UPLOAD")

\* what a message of another type leaves alone
C8_OtherMessageFrame ==
    last'.op = "other" =>
        /\ upload_chunks' = upload_chunks
        /\ lua' = lua
        /\ process_ref' = process_ref
        /\ context' = context

\* C8: message_listener returns DROP for every upload message, whether or
\* not its commit failed, and returns PASS for every other message, which
\* changes neither the pending buffer nor the runtime nor process_ref.
C8_ListenerDropsUploadsPassesOthers ==
    [] C8_ListenerResult /\ [][C8_OtherMessageFrame]_vars

\* an upload whose commit failed was still reported as handled
C8_Witness ==
    /\ last.op = "upload" /\ last.committed /\ CommitFailed(last)
    /\ last.result = "INDIGO_CORE_LISTENER_RESULT_DROP"

\* C9: a commit and a per-packet invocation are never inside the shared
\* runtime at once.
C9_MutualExclusion == ~(CommitInRuntime /\ ProcessInRuntime)

\* the environment of every function a commit called
C10_ExecutedInSandbox ==
    last.op = "upload" =>
        \A i \in 1..Len(last.execd) : last.execd[i].fn.env = "sandbox"

\* after init no step writes the globals table, and a fragment that calls
\* helper faults unless the sandbox itself binds helper
C10_GlobalsOutOfReach ==
    (phase = "running" /\ phase' = "running") =>
        /\ lua'.G = lua.G
        /\ (/\ last'.op = "upload"
            /\ Len(last'.execd) >= 1
            /\ last'.execd[1].fn.body = <<Stmt("h", <<>>)>>
            /\ lua.sandbox.helper = Nil)
           => last'.execd[1].status # 0

\* C10: every fragment a commit executes runs with the sandbox table as its
\* environment; the globals table is written by built-in code alone, and a
\* binding present only there (helper) cannot be called from a fragment.
C10_UploadedCodeConfined ==
    [] C10_ExecutedInSandbox /\ [][C10_GlobalsOutOfReach]_vars

\* a fragment assigned the name helper: the sandbox took the binding and the
\* built-in helper of the globals table is still in place
C10_Witness ==
    /\ last.op = "upload" /\ last.committed
    /\ \E i \in 1..Len(last.execd) :
          last.execd[i].fn.body = <<Stmt("w", <<>>)>> /\ last.execd[i].status = 0
    /\ lua.sandbox.helper = Fn(<<>>, "sandbox")
    /\ lua.G.helper = Fn(<<>>, "G")

\* a failed commit leaves process_ref and the function behind it alone
C11_FailedCommitKeepsHandle ==
    (last'.op = "upload" /\ last'.committed /\ CommitFailed(last')) =>
        /\ process_ref' = process_ref
        /\ lua'.registry[process_ref'] = lua.registry[process_ref]

\* a per-packet invocation calls the function that was behind process_ref
\* when it began
C11_ProcessCallsHandle ==
    last'.op = "process" =>
        /\ Len(last'.execd) = 1
        /\ last'.execd[1].fn = lua.registry[process_ref]

\* C11: a commit that fails leaves the entry point handle equal to the one
\* active before the commit, and the next per-packet invocation calls that
\* previously active entry point.
C11_FailedCommitKeepsEntryPoint ==
    [][C11_FailedCommitKeepsHandle /\ C11_ProcessCallsHandle]_vars

\* a commit failed after one of its chunks had defined process, and the
\* handle is still the built-in function taken at init
C11_Witness ==
    /\ last.op = "upload" /\ last.committed /\ CommitFailed(last)
    /\ \E i \in 1..Len(last.execd) : DefinesProcess(last.execd[i].fn)
    /\ lua.sandbox.process.type = "function"
    /\ lua.registry[process_ref].type = "function"
    /\ lua.registry[process_ref] # lua.sandbox.process

\* the two states of the upload session
Idle == upload_chunks = <<>>
Accumulating == upload_chunks # <<>>

\* the moves of the upload session over one step of the program
C12_SessionStep ==
    /\ (last'.op = "upload" /\ ~last'.terminal /\ Len(last'.msg.data) > 0)
          => Accumulating'
    /\ (last'.op = "upload" /\ ~last'.terminal /\ Len(last'.msg.data) = 0)
          => upload_chunks' = upload_chunks
    /\ (last'.op = "upload" /\ last'.terminal) => (last'.committed /\ Idle')
    /\ (Accumulating /\ Idle')
          => (last'.op = "finish" \/ (last'.op = "upload" /\ last'.terminal))
    /\ last'.op \in {"process", "other"} => upload_chunks' = upload_chunks

\* C12: the upload session is Idle (buffer empty) or Accumulating (buffer
\* non-empty); a non-terminal message with a payload moves or keeps it in
\* Accumulating, a terminal message returns it to Idle after the commit, and
\* nothing but a terminal message or finish ever empties the buffer.
C12_UploadStateMachine == [][C12_SessionStep]_vars

\* the session stayed Accumulating over two non-terminal chunks and a
\* per-packet invocation
C12_Witness ==
    /\ last.op = "process"
    /\ Len(upload_chunks) >= 2

\* the chunk a message delivers: its file name, its payload and its length
DeliveredChunk(m) == [filename |-> m.filename, size |-> Len(m.data), data |-> m.data]

\* the chunks that have arrived since the buffer was last cleared, once the
\* message m has been taken in on top of the buffer buf
Arrived(buf, m) == IF Len(m.data) > 0 THEN Append(buf, DeliveredChunk(m)) ELSE buf

\* C13 as first stated: every commit visits every chunk that arrived since
\* the last clear, once, in arrival order, with the file name and payload of
\* its message, compiling and then executing each before the next, and ends
\* at the end of the buffer.
C13_VisitsEveryChunk ==
    (last.op = "upload" /\ last.committed) =>
        /\ Len(last.loaded) = Len(last.buffered)
        /\ Len(last.execd) = Len(last.buffered)
        /\ \A k \in 1..Len(last.buffered) :
              /\ last.loaded[k].filename = last.buffered[k].filename
              /\ last.loaded[k].text = last.buffered[k].data
              /\ last.execd[k].nloaded = k
        /\ last.offset = xbuf_length(last.buffered)

\* the walk of one commit over the chunks `all` that arrived
C13_Walk(all, t) ==
    LET n == Len(t.loaded)
        x == Len(t.execd)
    IN /\ n <= Len(all)
       /\ x <= n /\ n <= x + 1
       /\ \A k \in 1..n :
             /\ t.loaded[k].filename = all[k].filename
             /\ t.loaded[k].text = all[k].data
       /\ \A k \in 1..x :
             /\ t.execd[k].filename = all[k].filename
             /\ t.execd[k].fn.body = Parse(all[k].data).stmts
             /\ t.execd[k].nloaded = k
       /\ \A k \in 1..(n - 1) :
             t.loaded[k].status = 0 /\ t.execd[k].status = 0
       /\ t.offset = xbuf_length(SubSeq(all, 1, n))
       /\ ~CommitFailed(t) =>
             (n = Len(all) /\ x = Len(all) /\ t.offset = xbuf_length(all))

C13_Step ==
    /\ (last'.op = "upload" /\ ~last'.terminal) =>
          upload_chunks' = Arrived(upload_chunks, last'.msg)
    /\ (last'.op = "upload" /\ last'.terminal) =>
          C13_Walk(Arrived(upload_chunks, last'.msg), last')

\* C13, amended: a commit visits the chunks that arrived since the buffer
\* was last cleared in arrival order, each at most once and with the file
\* name and payload of its message, compiling and then executing each before
\* compiling the next, up to and including the first chunk that fails; when
\* no chunk fails it visits every chunk and ends exactly at the end of the
\* buffer.
C13_VisitsChunksInOrder == [][C13_Step]_vars

\* a commit walked two chunks that arrived under different file names to
\* the end of the buffer
C13_Witness ==
    /\ last.op = "upload" /\ last.committed /\ ~CommitFailed(last)
    /\ Len(last.loaded) = 2 /\ Len(last.execd) = 2
    /\ last.loaded[1].filename # last.loaded[2].filename
    /\ last.loaded[1].text # last.loaded[2].text
    /\ last.offset = xbuf_length(last.buffered)

\* what one upload message does to the buffer and whether it commits
C14_UploadStep ==
    last'.op = "upload" =>
        LET m == last'.msg
            empty == Len(m.data) = 0
            more == m.flags % (2 * OFP_BSN_LUA_UPLOAD_MORE) >= OFP_BSN_LUA_UPLOAD_MORE
        IN /\ Len(last'.buffered) = Len(upload_chunks) + (IF empty THEN 0 ELSE 1)
           /\ ~empty => last'.buffered[Len(last'.buffered)].data = m.data
           /\ SubSeq(last'.buffered, 1, Len(upload_chunks)) = upload_chunks
           /\ last'.committed = ~more
           /\ last'.terminal = ~more
           /\ more => upload_chunks' = last'.buffered
           /\ ~more => upload_chunks' = <<>>
           /\ (~more /\ empty /\ upload_chunks # <<>>) =>
                 (/\ Len(last'.loaded) >= 1
                  /\ last'.loaded[1].text = upload_chunks[1].data)
           /\ (~more /\ empty /\ upload_chunks = <<>>) =>
                 (/\ last'.loaded = <<>> /\ last'.execd = <<>>
                  /\ last'.replies = <<>>
                  /\ lua' = lua)
           /\ (more /\ empty) =>
                 (/\ upload_chunks' = upload_chunks
                  /\ lua' = lua
                  /\ process_ref' = process_ref
                  /\ context' = context)

\* C14: an upload message appends a chunk if and only if its payload is
\* non-empty and commits if and only if its MORE bit is clear, independently:
\* a terminal message with an empty payload commits and clears what is
\* buffered (nothing, and without a reply, when the buffer is empty), and a
\* non-terminal message with an empty payload changes nothing.
C14_AppendAndCommitIndependent == [][C14_UploadStep]_vars

\* a terminal message with an empty payload committed the chunks buffered
\* before it and cleared them
C14_Witness ==
    /\ last.op = "upload" /\ last.terminal /\ last.committed
    /\ Len(last.msg.data) = 0
    /\ Len(last.loaded) >= 1
    /\ upload_chunks = <<>>

\* the MORE bit of the message the step handled
C15_MoreSet(m) == m.flags % (2 * OFP_BSN_LUA_UPLOAD_MORE) >= OFP_BSN_LUA_UPLOAD_MORE

\* a non-terminal upload touches the buffer alone; a per-packet invocation
\* does not read the buffer and calls the function behind process_ref
C15_NonTerminalStep ==
    /\ (last'.op = "upload" /\ C15_MoreSet(last'.msg)) =>
          /\ lua' = lua
          /\ process_ref' = process_ref
          /\ context' = context
          /\ phase' = phase
          /\ last'.loaded = <<>> /\ last'.execd = <<>>
          /\ last'.replies = <<>> /\ last'.writes = <<>>
          /\ ~last'.committed
    /\ last'.op = "process" =>
          /\ upload_chunks' = upload_chunks
          /\ last'.execd[1].fn = lua.registry[process_ref]

\* C15: a non-terminal upload message changes only the pending buffer: it
\* compiles and executes nothing and leaves the runtime bindings and the
\* entry point handle as they were, so per-packet invocations during a
\* session run what they ran before it.
C15_NonTerminalChangesOnlyBuffer == [][C15_NonTerminalStep]_vars

\* a chunk that defines process is buffered by a non-terminal message and
\* the sandbox does not bind process
C15_Witness ==
    /\ last.op = "upload" /\ ~last.terminal
    /\ upload_chunks # <<>>
    /\ upload_chunks[Len(upload_chunks)].data = <<"f", "e">>
    /\ lua.sandbox.process = Nil

\* after every upload message the session holds one chunk per payload that
\* arrived, whoever sent it; a terminal message commits that whole mixed
\* sequence from its oldest chunk, in arrival order, answers a failure on
\* its own connection only, and leaves the buffer empty
C16_SharedSession ==
    last.op = "upload" =>
        /\ Len(senders) = Len(last.buffered)
        /\ ~last.terminal => upload_chunks = last.buffered
        /\ last.terminal =>
              /\ upload_chunks = <<>>
              /\ C13_Walk(last.buffered, last)
              /\ ~CommitFailed(last) => Len(last.execd) = Len(last.buffered)
              /\ Len(last.replies) = IF CommitFailed(last) THEN 1 ELSE 0
              /\ \A r \in 1..Len(last.replies) :
                    /\ last.replies[r].cxn_id = last.cxn_id
                    /\ last.replies[r].msg = last.msg

\* an upload message of either peer is taken in on top of whatever both
\* peers delivered since the buffer was last cleared, and on nothing older
C16_PeerStep ==
    last'.op = "upload" =>
        /\ last'.buffered = Arrived(upload_chunks, last'.msg)
        /\ senders' = IF Len(last'.msg.data) > 0
                         THEN Append(IF upload_chunks = <<>> THEN <<>> ELSE senders,
                                     last'.cxn_id)
                      ELSE IF upload_chunks = <<>> THEN <<>> ELSE senders
        /\ (last.op = "upload" /\ last.terminal) =>
              last'.buffered = Arrived(<<>>, last'.msg)

\* C16: when the upload messages of two peers interleave, the chunks of both
\* are buffered together; the first terminal message of either peer commits
\* them all in arrival order and clears the buffer; a failure of any chunk,
\* whoever delivered it, is reported only to the peer that sent the terminal
\* message; the other peer's later terminal message commits only the chunks
\* that arrived after the clear.
C16_PeersShareOneSession == []C16_SharedSession /\ [][C16_PeerStep]_vars

\* a terminal message of one peer has committed a session whose failing
\* chunk the other peer delivered, and has been answered on its own connection
C16_Witness ==
    /\ last.op = "upload" /\ last.terminal
    /\ CommitFailed(last)
    /\ Len(senders) >= 2
    /\ Len(last.loaded) < Len(senders)
    /\ senders[Len(last.loaded)] # last.cxn_id
    /\ senders[Len(senders)] = last.cxn_id
    /\ last.replies[1].cxn_id = last.cxn_id

\* C17: the context is written right before each per-packet invocation and
\* is not referenced once that invocation has returned: the code a commit
\* runs makes no access through the sinks of an earlier packet, nor through
\* a context that no packet has set yet.
C17_ContextNotUsedOutsideInvocation ==
    (last.op = "upload" /\ last.committed) => last.writes = <<>>

\* the built-in sources define the entry point: one of them compiles and
\* holds a top-level definition of process
BuiltinDefinesProcess ==
    \E i \in 1..Len(builtin) :
        LET p == Parse(builtin[i].text) IN
        p.ok /\ \E k \in 1..Len(p.stmts) : p.stmts[k].op = "def"

\* C18: between init and finish, whatever uploads, commits and packets came,
\* process_ref names a registry slot holding a function, the one checked by
\* lua_isfunction when the reference was taken; and init does not complete
\* when the built-in code defines no process.
C18_EntryPointIsVerifiedFunction ==
    /\ phase = "running" =>
          /\ process_ref \in 1..Len(lua.registry)
          /\ lua_isfunction([stack |-> <<lua.registry[process_ref]>>])
          /\ lua.registry[process_ref] = lua.G.process
    /\ ~BuiltinDefinesProcess => phase \in {"new", "aborted"}

\* the handle is in use after a commit that ran an uploaded definition of
\* process and after a commit that failed
C18_Witness ==
    /\ phase = "running"
    /\ last.op = "upload" /\ last.committed /\ CommitFailed(last)
    /\ \E i \in 1..Len(last.execd) : DefinesProcess(last.execd[i].fn)
    /\ lua.registry[process_ref].type = "function"

\* pipeline_lua_process or a commit returns with the stack as deep as it
\* found it
C19_DepthKept ==
    (last'.op = "process" \/ (last'.op = "upload" /\ last'.committed))
        => lua_gettop(lua') = lua_gettop(lua)

\* C19: every operation leaves the value stack of the interpreter at the
\* depth it found it, on success and on compile, execution or runtime
\* failure alike, so the depth stays bounded over any sequence of operations.
C19_StackDepthPreserved == [][C19_DepthKept]_vars

\* C20: pipeline_lua_finish drops the chunks of an unfinished upload session
\* without compiling or executing any of them and without a reply,
\* unregisters the listener and leaves the buffer empty and the interpreter
\* closed; nothing is committed after it.
C20_FinishDiscardsPending ==
    phase = "finished" =>
        /\ last.op = "finish"
        /\ last.loaded = <<>> /\ last.execd = <<>>
        /\ last.replies = <<>> /\ last.writes = <<>>
        /\ ~registered
        /\ upload_chunks = <<>>
        /\ lua = NULL

\* finish was called in the middle of an upload session
C20_Witness ==
    /\ phase = "finished"
    /\ last.op = "finish"
    /\ Len(last.buffered) >= 2
    /\ upload_chunks = <<>>

====
